---------------------------- MODULE Spec2Model ----------------------------
(***************************************************************************)
(* The bounding-volume hierarchy of the ray tracer: the interval algebra   *)
(* (src/src/intervals.rs), the axis-aligned bounding box with its slab     *)
(* test and covering operations, the builder make_coveringtree and the     *)
(* traversal tree_filter (src/src/boundingvolume.rs), and their caller     *)
(* accel_raytrace with the comparator cmp_intersection (src/src/lib.rs).   *)
(*                                                                         *)
(* Numbers.  Every f64 (interval ends, ray origin and direction, sphere    *)
(* centre and radius, ray parameters) is held as an integer count of       *)
(* 1/Half units, so 1.5 is 3.  Ray directions are drawn from               *)
(* {0, +-1/2, +-1} per component, on which the quotient FDiv is exact;     *)
(* x / 1.0e-4 is x * EpsInv.  On the values drawn below no two distinct    *)
(* quotients are close enough for f64 rounding to change the outcome of a  *)
(* comparison.                                                             *)
(*                                                                         *)
(* Option<T> is a sequence of length 0 (None) or 1 (Some).  An array index *)
(* i of the source is i + 1 here.                                          *)
(***************************************************************************)
EXTENDS Integers, Sequences, FiniteSets, TLC

\* fixed-point denominator of every f64: the value 1.0 is Half
Half == 2

\* the divisor 1.0e-4 used for a zero direction component, as its inverse
EpsInv == 10000

None == << >>
Some(x) == << x >>
IsSome(o) == Len(o) = 1
IsNone(o) == Len(o) = 0
Unwrap(o) == o[1]

\* a / b on f64 values a, b (b # 0), both in 1/Half units, result in 1/Half units
FDiv(a, b) == IF b > 0 THEN (a * Half) \div b ELSE (-(a * Half)) \div (-b)

---------------------------------------------------------------------------
(* intervals.rs *)

\* Interval { start, end } / Interval::new / interval!
Interval(s, e) == [start |-> s, end |-> e]

\* Interval::size
size(in) == in.end - in.start

\* the test made with >: intervals that only touch give a zero-size interval
intersection_touching(in1, in2) ==
    LET s == IF in1.start < in2.start THEN in2.start ELSE in1.start
        e == IF in1.end < in2.end THEN in1.end ELSE in2.end
    IN  IF s > e THEN None ELSE Some(Interval(s, e))

\* the start taken from in1 on both branches
intersection_start_of_first(in1, in2) ==
    LET s == IF in1.start < in2.start THEN in1.start ELSE in1.start
        e == IF in1.end < in2.end THEN in1.end ELSE in2.end
    IN  IF s >= e THEN None ELSE Some(Interval(s, e))

\* intersection(in1, in2): None when start >= end
intersection(in1, in2) ==
    LET s == IF in1.start < in2.start THEN in2.start ELSE in1.start
        e == IF in1.end < in2.end THEN in1.end ELSE in2.end
    IN  IF s >= e THEN None ELSE Some(Interval(s, e))

\* the end taken as the start is: the lesser of the two
cover_lesser_end(in1, in2) ==
    LET s == IF in1.start < in2.start THEN in1.start ELSE in2.start
        e == IF in1.end < in2.end THEN in1.end ELSE in2.end
    IN  Interval(s, e)

\* cover(in1, in2)
cover(in1, in2) ==
    LET s == IF in1.start < in2.start THEN in1.start ELSE in2.start
        e == IF in1.end < in2.end THEN in2.end ELSE in1.end
    IN  Interval(s, e)

---------------------------------------------------------------------------
(* ray.rs, geometry.rs, lib.rs: rays, spheres, hittables *)

\* Ray { orig, dir }
Ray(o, d) == [orig |-> o, dir |-> d]

\* Shape::Sphere(Sphere { centre, radius }) inside
\* Hittable { shape, material }; id stands for the identity of the object
\* (its address, its material)
Hittable(i, c, r) == [id |-> i, shape |-> "Sphere", centre |-> c, radius |-> r]

\* `if let Material::Emitter { albedo } = hit_obj.material`, the material
\* told by the id: an emitter has an id below 0, a hittable whose material
\* scatters (Material::Diffuse, as in test_coveringtree_intersect) does not
is_emitter(h) == h.id < 0

\* a Hittable whose shape is Shape::Disc(Disc { centre, normal, radius })
Disc(i, c, n, r) ==
    [id |-> i, shape |-> "Disc", centre |-> c, normal |-> n, radius |-> r]

\* a Hittable whose shape is
\* Shape::Cylinder(Cylinder { centre, axis, radius, height })
Cylinder(i, c, a, r, h) ==
    [id |-> i, shape |-> "Cylinder", centre |-> c, axis |-> a, radius |-> r,
     height |-> h]

\* a Hittable whose shape is Shape::TruncCone(TruncCone { centre, axis,
\* opening_angle, centre_radius, height }); opening_angle in whole degrees
TruncCone(i, c, a, angle, cr, h) ==
    [id |-> i, shape |-> "TruncCone", centre |-> c, axis |-> a,
     opening_angle |-> angle, centre_radius |-> cr, height |-> h]

\* Vec3::dotprod
dotprod(u, v) == u[1] * v[1] + u[2] * v[2] + u[3] * v[3]

\* Sphere::intersect, as the Option<f64> tree_filter stores: None where the
\* source returns FARAWAY.  With P = (orig - centre) . dir and
\* Q = |orig - centre|^2 in 1/Half^2 units, b = 2P/Half^2,
\* c = (Q - radius^2)/Half^2 and discrm = 4 disc/Half^4.  A hit is the root
\* (-P + root * sqrt(disc)) / Half^2, kept by its three integers.
shape_intersect(h, ray) ==
    LET rtc  == [i \in 1..3 |-> ray.orig[i] - h.centre[i]]
        P    == dotprod(rtc, ray.dir)
        c    == dotprod(rtc, rtc) - h.radius * h.radius
        disc == P * P - Half * Half * c
    IN  IF disc < 0 THEN None
        ELSE IF P < 0 /\ c > 0
             THEN Some([negP |-> -P, disc |-> disc, root |-> -1])
        ELSE IF P < 0 \/ c < 0
             THEN Some([negP |-> -P, disc |-> disc, root |-> 1])
        ELSE None

\* the order with None before every Some
cmp_intersection_none_first(a, b) ==
    IF IsSome(a) /\ IsSome(b)
    THEN (IF Unwrap(a) < Unwrap(b) THEN "Less"
          ELSE IF Unwrap(a) = Unwrap(b) THEN "Equal"
          ELSE "Greater")
    ELSE IF IsSome(a) THEN "Greater"
    ELSE IF IsSome(b) THEN "Less"
    ELSE "Equal"

\* cmp_intersection(a, b) on two Option<f64> of finite values, where
\* partial_cmp is never None and unwrap never panics
cmp_intersection(a, b) ==
    IF IsSome(a) /\ IsSome(b)
    THEN (IF Unwrap(a) < Unwrap(b) THEN "Less"
          ELSE IF Unwrap(a) = Unwrap(b) THEN "Equal"
          ELSE "Greater")
    ELSE IF IsSome(a) THEN "Less"
    ELSE IF IsSome(b) THEN "Greater"
    ELSE "Equal"

\* the fold that gives way to a later position that compares Equal
RECURSIVE min_by_from_last_wins(_, _, _)
min_by_from_last_wins(params, best, next) ==
    IF next > Len(params) THEN best
    ELSE IF cmp_intersection(params[best], params[next]) # "Less"
         THEN min_by_from_last_wins(params, next, next + 1)
         ELSE min_by_from_last_wins(params, best, next + 1)

\* the fold of Iterator::min_by over the positions of a list of parameters:
\* the position kept so far gives way only to one that compares Greater
RECURSIVE min_by_from(_, _, _)
min_by_from(params, best, next) ==
    IF next > Len(params) THEN best
    ELSE IF cmp_intersection(params[best], params[next]) = "Greater"
         THEN min_by_from(params, next, next + 1)
         ELSE min_by_from(params, best, next + 1)

\* .iter().min_by(|x, y| cmp_intersection(x.1, y.1)) on the parameters of a
\* candidate list: None for an empty list, else the position of the minimum
min_by(params) ==
    IF params = << >> THEN None ELSE Some(min_by_from(params, 1, 2))

\* sqrt on the discriminants that are squares; on any other value the
\* operator has no value and the evaluation stops
Sqrt(d) == CHOOSE r \in 0..d : r * r = d

\* the f64 of a hit, as the integer negP + root * sqrt(disc), which is the
\* ray parameter in 1/Half^2 units
param_value(hit) == hit.negP + hit.root * Sqrt(hit.disc)

\* x.1 of each entry x of a candidate list, as Option<f64>
params_of(subscene) ==
    [i \in 1..Len(subscene) |->
        IF IsSome(subscene[i].param)
        THEN Some(param_value(Unwrap(subscene[i].param)))
        ELSE None]

---------------------------------------------------------------------------
(* boundingvolume.rs: BoundingBox *)

\* BoundingBox { dims, boxed }
BoundingBox(d, b) == [dims |-> d, boxed |-> b]

\* BoundingBox::default (and BoundingBox::empty, the same value)
DefaultBox == BoundingBox([i \in 1..3 |-> Interval(0, 0)], None)

\* BoundingBox::empty
empty == BoundingBox([i \in 1..3 |-> Interval(0, 0)], None)

\* BoundingBox::with_dims
with_dims(d) == BoundingBox(d, None)

\* a ray that runs along the slab (direction 0 on the axis) given no time
\* in it at all
axis_times_parallel_misses(in, o, d) ==
    LET s == IF d = 0 THEN 0 ELSE FDiv(in.start - o, d)
        e == IF d = 0 THEN 0 ELSE FDiv(in.end - o, d)
    IN  IF size(Interval(s, e)) < 0 THEN Interval(e, s) ELSE Interval(s, e)

\* the per-axis time interval of check_intersection (the loop body)
axis_times(in, o, d) ==
    LET s == IF d = 0 THEN (in.start - o) * EpsInv ELSE FDiv(in.start - o, d)
        e == IF d = 0 THEN (in.end - o) * EpsInv ELSE FDiv(in.end - o, d)
    IN  IF size(Interval(s, e)) < 0 THEN Interval(e, s) ELSE Interval(s, e)

\* the test that also wants the box to begin ahead of the origin
check_intersection_ahead(bbox, ray) ==
    LET times == [i \in 1..3 |-> axis_times(bbox.dims[i], ray.orig[i], ray.dir[i])]
        xy    == intersection(times[1], times[2])
    IN  IF IsNone(xy) THEN FALSE
        ELSE /\ IsSome(intersection(Unwrap(xy), times[3]))
             /\ Unwrap(intersection(Unwrap(xy), times[3])).start > 0

\* the test made on the first two axes only
check_intersection_two_axes(bbox, ray) ==
    LET times == [i \in 1..3 |-> axis_times(bbox.dims[i], ray.orig[i], ray.dir[i])]
    IN  IsSome(intersection(times[1], times[2]))

\* BoundingBox::check_intersection
check_intersection(bbox, ray) ==
    LET times == [i \in 1..3 |-> axis_times(bbox.dims[i], ray.orig[i], ray.dir[i])]
        xy    == intersection(times[1], times[2])
    IN  IF IsNone(xy) THEN FALSE
        ELSE IsSome(intersection(Unwrap(xy), times[3]))

\* the comparisons made with >=: ties go to the lower-indexed axis
longest_axis_ties_low(bbox) ==
    LET sizes == [i \in 1..3 |-> size(bbox.dims[i])]
    IN  IF sizes[1] >= sizes[2] /\ sizes[1] >= sizes[3] THEN 0
        ELSE IF sizes[2] >= sizes[3] THEN 1
        ELSE 2

\* BoundingBox::longest_axis (the source's index, 0..2)
longest_axis(bbox) ==
    LET sizes == [i \in 1..3 |-> size(bbox.dims[i])]
    IN  IF sizes[1] > sizes[2] /\ sizes[1] > sizes[3] THEN 0
        ELSE IF sizes[2] > sizes[3] THEN 1
        ELSE 2

\* the cover that keeps the payload of its first box
make_cover_of_keeps_payload(bbox1, bbox2) ==
    BoundingBox([i \in 1..3 |-> cover(bbox1.dims[i], bbox2.dims[i])], bbox1.boxed)

\* make_cover_of
make_cover_of(bbox1, bbox2) ==
    BoundingBox([i \in 1..3 |-> cover(bbox1.dims[i], bbox2.dims[i])], None)

\* BoundingBox::compose_with
compose_with(self, other) == make_cover_of(self, other)

\* Cover for Hittable: make_covering (the Sphere arm)
make_covering(h) ==
    BoundingBox([i \in 1..3 |-> Interval(h.centre[i] - h.radius, h.centre[i] + h.radius)],
                Some(h))

\* what a call of make_covering comes to: the box, or the panic of
\* unimplemented!()
Covered(bbox) == [panicked |-> FALSE, bbox |-> Some(bbox)]
Unimplemented == [panicked |-> TRUE, bbox |-> None]

\* Cover for Hittable: make_covering, the match on self.shape
make_covering_match(h) ==
    IF h.shape = "Sphere" THEN Covered(make_covering(h)) ELSE Unimplemented

---------------------------------------------------------------------------
(* boundingvolume.rs: BoundingBoxes (slices of boxes) *)

\* the fold of make_all_covering
RECURSIVE fold_compose(_, _)
fold_compose(acc, boxes) ==
    IF boxes = << >> THEN acc
    ELSE fold_compose(compose_with(acc, Head(boxes)), Tail(boxes))

\* the fold started from the first box of the slice
make_all_covering_from_first(boxes) ==
    IF boxes = << >> THEN empty
    ELSE fold_compose(with_dims(Head(boxes).dims), Tail(boxes))

\* BoundingBoxes::make_all_covering
make_all_covering(boxes) == fold_compose(empty, boxes)

\* the arrangements of the slots `left` of a slice in non-decreasing order of
\* dims[idx].size(): a slot of least size first, then the others likewise
RECURSIVE sorted_orders(_, _, _)
sorted_orders(boxes, idx, left) ==
    IF left = { } THEN { << >> }
    ELSE UNION { { << i >> \o rest : rest \in sorted_orders(boxes, idx, left \ { i }) } :
                 i \in { m \in left : \A j \in left :
                            size(boxes[m].dims[idx + 1]) <= size(boxes[j].dims[idx + 1]) } }

\* the sort made on the first axis whatever idx is
sort_on_first_axis(boxes, idx) ==
    UNION { { [i \in 1..Len(bs) |-> bs[p[i]]] : p \in sorted_orders(bs, 0, 1..Len(bs)) } :
            bs \in { boxes } }

\* BoundingBoxes::sort_on_index: sort_unstable_by on dims[idx].size().  The
\* order of boxes of equal size is not fixed by the sort's contract: every
\* sorted arrangement of the slice is an outcome.
sort_on_index(boxes, idx) ==
    UNION { { [i \in 1..Len(bs) |-> bs[p[i]]] : p \in sorted_orders(bs, k, 1..Len(bs)) } :
            bs \in { boxes }, k \in { idx } }

\* the split with the right half starting one box late
split_on_covering_skips_one(boxes) ==
    LET halfway  == Len(boxes) \div 2
        covering == make_all_covering(boxes)
    IN  { [left  |-> SubSeq(s, 1, halfway),
           right |-> SubSeq(s, halfway + 2, Len(s))] :
          s \in sort_on_index(boxes, longest_axis(covering)) }

\* the split at the end of the slice: every box on the left, none on the right
split_on_covering_all_left(boxes) ==
    LET halfway  == Len(boxes)
        covering == make_all_covering(boxes)
    IN  { [left  |-> SubSeq(s, 1, halfway),
           right |-> SubSeq(s, halfway + 1, Len(s))] :
          s \in sort_on_index(boxes, longest_axis(covering)) }

\* the split at the midpoint rounded up
split_on_covering_rounds_up(boxes) ==
    LET halfway  == (Len(boxes) + 1) \div 2
        covering == make_all_covering(boxes)
    IN  { [left  |-> SubSeq(s, 1, halfway),
           right |-> SubSeq(s, halfway + 1, Len(s))] :
          s \in sort_on_index(boxes, longest_axis(covering)) }

\* split_on_covering: the slice as sorted in place, and its two halves
split_on_covering(boxes) ==
    LET halfway  == Len(boxes) \div 2
        covering == make_all_covering(boxes)
    IN  { [left  |-> SubSeq(s, 1, halfway),
           right |-> SubSeq(s, halfway + 1, Len(s))] :
          s \in sort_on_index(boxes, longest_axis(covering)) }

---------------------------------------------------------------------------
(* boundingvolume.rs: CoveringTree *)

\* CoveringTree { cover, left, right }
CoveringTree(c, l, r) == [cover |-> c, left |-> l, right |-> r]

\* the cover taken from the two ends of the slice only
make_from_ends(boxes) ==
    CoveringTree(make_cover_of(boxes[1], boxes[Len(boxes)]), None, None)

\* CoveringTree::make_from
make_from(boxes) == CoveringTree(make_all_covering(boxes), None, None)

\* a call's outcome: it panicked, or returned `tree` and left the caller's
\* slice as `boxes`
Returned(t, b) == [panicked |-> FALSE, tree |-> Some(t), boxes |-> b]
Panicked(b) == [panicked |-> TRUE, tree |-> None, boxes |-> b]

\* an empty slice answered with a node that holds the box of make_from, the
\* sentinel BoundingBox::empty(), instead of the unwrap of first_mut()
take_first_sentinel(boxes) ==
    IF Len(boxes) = 0 THEN Returned(make_from(boxes), boxes)
    ELSE Returned(CoveringTree(boxes[1], None, None),
                  [boxes EXCEPT ![1] = DefaultBox])

\* the leaf made from a dims_copy of the first box: its payload stays behind
take_first_dims_copy(boxes) ==
    IF Len(boxes) = 0 THEN Panicked(boxes)
    ELSE Returned(CoveringTree(with_dims(boxes[1].dims), None, None), boxes)

\* the leaf made from a copy of the first box, which stays in its slot
take_first_copy(boxes) ==
    IF Len(boxes) = 0 THEN Panicked(boxes)
    ELSE Returned(CoveringTree(boxes[1], None, None), boxes)

\* the else branch of make_coveringtree: take the first box of the slice
take_first(boxes) ==
    IF Len(boxes) = 0 THEN Panicked(boxes)
    ELSE Returned(CoveringTree(boxes[1], None, None),
                  [boxes EXCEPT ![1] = DefaultBox])

\* the test off by one: a slice of two is treated as a single box
more_than_two(boxes) == Len(boxes) > 2

\* the test `boxes.len() > 1` of make_coveringtree
more_than_one(boxes) == Len(boxes) > 1

\* make_coveringtree: the set of outcomes, one per outcome of the sorts
RECURSIVE make_coveringtree(_)
make_coveringtree(boxes) ==
    IF more_than_one(boxes)
    THEN LET tree == make_from(boxes)
         IN  UNION { UNION { { IF l.panicked THEN Panicked(l.boxes \o h.right)
                               ELSE IF r.panicked THEN Panicked(l.boxes \o r.boxes)
                               ELSE Returned([tree EXCEPT !.left = l.tree, !.right = r.tree],
                                             l.boxes \o r.boxes) :
                               r \in make_coveringtree(h.right) } :
                             l \in make_coveringtree(h.left) } :
                     h \in split_on_covering(boxes) }
    ELSE { take_first(boxes) }

\* the node reached from root by a path of "left" / "right" child links
RECURSIVE NodeAt(_, _)
NodeAt(root, path) ==
    IF path = << >> THEN root
    ELSE NodeAt(Unwrap(root[Head(path)]), Tail(path))

\* an element of the output list: (&Hittable, Option<f64>)
Candidate(h, p) == [hittable |-> h, param |-> p]

\* the push made only when the exact test hits
push_candidate_hits_only(node, subscene, ray) ==
    IF IsSome(node.cover.boxed)
       /\ IsSome(shape_intersect(Unwrap(node.cover.boxed), ray))
    THEN Append(subscene, Candidate(Unwrap(node.cover.boxed),
                                    shape_intersect(Unwrap(node.cover.boxed), ray)))
    ELSE subscene

\* the `if let Some(hittable)` arm of tree_filter
push_candidate(node, subscene, ray) ==
    IF IsSome(node.cover.boxed)
    THEN Append(subscene, Candidate(Unwrap(node.cover.boxed),
                                    shape_intersect(Unwrap(node.cover.boxed), ray)))
    ELSE subscene

\* tree_filter as one call that runs to its return
RECURSIVE tree_filter(_, _, _)
tree_filter(root, subscene, ray) ==
    IF check_intersection(root.cover, ray)
    THEN LET s1 == push_candidate(root, subscene, ray)
             s2 == IF IsSome(root.left) THEN tree_filter(Unwrap(root.left), s1, ray) ELSE s1
             s3 == IF IsSome(root.right) THEN tree_filter(Unwrap(root.right), s2, ray) ELSE s2
         IN  s3
    ELSE subscene

---------------------------------------------------------------------------
(* tree_filter as the steps of its recursion *)

\* a call of tree_filter on the node at `node`; pc is where the call stands:
\* "enter" before the cover test, "left" / "right" before the `if let` on
\* that child, "return" when the call of the right child is outstanding
Frame(path, pc) == [node |-> path, pc |-> pc]

\* the calls made on the right child first and on the left child after it
RECURSIVE resume_right_first(_, _)
resume_right_first(root, stack) ==
    IF stack = << >> THEN stack
    ELSE LET n    == Len(stack)
             top  == stack[n]
             node == NodeAt(root, top.node)
         IN  CASE top.pc = "enter" -> stack
               [] top.pc = "left" ->
                    IF IsSome(node.right)
                    THEN Append([stack EXCEPT ![n].pc = "right"],
                                Frame(Append(top.node, "right"), "enter"))
                    ELSE resume_right_first(root, [stack EXCEPT ![n].pc = "right"])
               [] top.pc = "right" ->
                    IF IsSome(node.left)
                    THEN Append([stack EXCEPT ![n].pc = "return"],
                                Frame(Append(top.node, "left"), "enter"))
                    ELSE resume_right_first(root, SubSeq(stack, 1, n - 1))
               [] OTHER -> resume_right_first(root, SubSeq(stack, 1, n - 1))

\* run the calls on the stack up to the next cover test (or the last return)
RECURSIVE resume(_, _)
resume(root, stack) ==
    IF stack = << >> THEN stack
    ELSE LET n    == Len(stack)
             top  == stack[n]
             node == NodeAt(root, top.node)
         IN  CASE top.pc = "enter" -> stack
               [] top.pc = "left" ->
                    IF IsSome(node.left)
                    THEN Append([stack EXCEPT ![n].pc = "right"],
                                Frame(Append(top.node, "left"), "enter"))
                    ELSE resume(root, [stack EXCEPT ![n].pc = "right"])
               [] top.pc = "right" ->
                    IF IsSome(node.right)
                    THEN Append([stack EXCEPT ![n].pc = "return"],
                                Frame(Append(top.node, "right"), "enter"))
                    ELSE resume(root, SubSeq(stack, 1, n - 1))
               [] OTHER -> resume(root, SubSeq(stack, 1, n - 1))

\* the tree with the payload of the node at path taken out of its box
RECURSIVE payload_taken(_, _)
payload_taken(root, path) ==
    IF path = << >> THEN [root EXCEPT !.cover.boxed = None]
    ELSE [root EXCEPT ![Head(path)] =
             Some(payload_taken(Unwrap(root[Head(path)]), Tail(path)))]

\* what one visit of a node writes to the tree: nothing (root is a shared
\* reference)
tree_after_visit(root, path) == root

\* how many calls of shape.intersect one visit of a node makes once its cover
\* test has passed: one when the box carries a payload
intersect_calls(node) == IF IsSome(node.cover.boxed) THEN 1 ELSE 0

\* the step of a tree_filter without the cover test: it goes on into the
\* node whatever check_intersection says
tree_filter_step_no_prune(root, ray, st) ==
    LET n    == Len(st.stack)
        top  == st.stack[n]
        node == NodeAt(root, top.node)
    IN  [stack    |-> resume(root, [st.stack EXCEPT ![n].pc = "left"]),
         subscene |-> push_candidate(node, st.subscene, ray),
         visited  |-> Append(st.visited, top.node),
         calls    |-> st.calls + intersect_calls(node),
         after    |-> Append(st.after,
                             [subscene |-> push_candidate(node, st.subscene, ray),
                              calls    |-> st.calls + intersect_calls(node)])]

\* the cover test of the call on top of the stack, its push, and the control
\* flow up to the next cover test.  `visited` records the nodes tested,
\* `calls` counts the calls of shape.intersect, and `after` records the
\* output list and the count as each visit left them.
tree_filter_step(root, ray, st) ==
    LET n    == Len(st.stack)
        top  == st.stack[n]
        node == NodeAt(root, top.node)
    IN  IF check_intersection(node.cover, ray)
        THEN [stack    |-> resume(root, [st.stack EXCEPT ![n].pc = "left"]),
              subscene |-> push_candidate(node, st.subscene, ray),
              visited  |-> Append(st.visited, top.node),
              calls    |-> st.calls + intersect_calls(node),
              after    |-> Append(st.after,
                                  [subscene |-> push_candidate(node, st.subscene, ray),
                                   calls    |-> st.calls + intersect_calls(node)])]
        ELSE [stack    |-> resume(root, SubSeq(st.stack, 1, n - 1)),
              subscene |-> st.subscene,
              visited  |-> Append(st.visited, top.node),
              calls    |-> st.calls,
              after    |-> Append(st.after,
                                  [subscene |-> st.subscene, calls |-> st.calls])]

---------------------------------------------------------------------------
(* The inputs *)

\* the most boxes a slice holds
MaxBoxes == 3

Vec3(x, y, z) == << x, y, z >>

\* the spheres of test_coveringtree_intersect (radius 5, 1, 1)
Spheres ==
    { [centre |-> Vec3(0, 0, 0), radius |-> 10],
      [centre |-> Vec3(0, 0, 4), radius |-> 2],
      [centre |-> Vec3(0, 4, 0), radius |-> 2] }

\* boxes made by with_dims: the unit box of test_bbox_intersection and
\* bbox3 of test_all_covering, which has no extent on the last axis
PlainDims ==
    { << Interval(0, 2), Interval(0, 2), Interval(0, 2) >>,
      << Interval(0, 4), Interval(0, 2), Interval(2, 2) >> }

\* the boxes slot i of a slice may hold: the cover of hittable i, or a box
\* without a payload
BoxesAt(i) ==
    { make_covering(Hittable(i, s.centre, s.radius)) : s \in Spheres }
    \cup { with_dims(d) : d \in PlainDims }

RECURSIVE Slices(_)
Slices(n) ==
    IF n = 0 THEN { << >> }
    ELSE { Append(s, b) : s \in Slices(n - 1), b \in BoxesAt(n) }

Inputs == UNION { Slices(n) : n \in 0..MaxBoxes }

\* the most boxes of a slice that is only built from
MaxBuildBoxes == 5

\* the boxes slot i of such a slice may hold: the cover of a sphere (one
\* of two, by the slot) or a box without a payload (one of two, by the slot)
BuildBoxesAt(i) ==
    IF i % 2 = 1
    THEN { make_covering(Hittable(i, Vec3(6, 2, 2), 2)),
           with_dims(<< Interval(0, 2), Interval(0, 2), Interval(0, 2) >>) }
    ELSE { make_covering(Hittable(i, Vec3(0, 0, 4), 2)),
           with_dims(<< Interval(0, 4), Interval(0, 2), Interval(2, 2) >>) }

RECURSIVE BuildSlices(_)
BuildSlices(n) ==
    IF n = 0 THEN { << >> }
    ELSE { Append(s, b) : s \in BuildSlices(n - 1), b \in BuildBoxesAt(n) }

BuildInputs == UNION { BuildSlices(n) : n \in 0..MaxBuildBoxes }

\* the most boxes of a slice whose build is followed call by call
MaxStepBoxes == 5

\* the boxes slot i of such a slice may hold: a box without a payload that
\* is 2i long, or the cover of a sphere of radius i + 1, as long as the box
\* of the next slot
StepBoxesAt(i) ==
    { with_dims(<< Interval(0, 2 * i), Interval(0, 2), Interval(0, 2) >>),
      make_covering(Hittable(i, Vec3(2 * i, 0, 0), i + 1)) }

RECURSIVE StepSlices(_)
StepSlices(n) ==
    IF n = 0 THEN { << >> }
    ELSE { Append(s, b) : s \in StepSlices(n - 1), b \in StepBoxesAt(n) }

StepInputs == UNION { StepSlices(n) : n \in 0..MaxStepBoxes }

\* the most boxes of a slice whose tree several queries share
MaxConcBoxes == 3

ConcInputs == UNION { BuildSlices(n) : n \in 1..MaxConcBoxes }

\* the rays of test_bbox_intersection and test_coveringtree_intersect, rays
\* along and across the axes, and rays whose origin is far from the boxes
Rays ==
    { Ray(Vec3(3, 1, 1), Vec3(2, 0, 0)),
      Ray(Vec3(3, 1, 1), Vec3(-2, 0, 0)),
      Ray(Vec3(3, 3, 1), Vec3(2, 0, 0)),
      Ray(Vec3(-3, -1, -1), Vec3(2, 0, 0)),
      Ray(Vec3(0, 0, 0), Vec3(0, 0, 0)),
      Ray(Vec3(1, 1, 1), Vec3(1, 2, -1)),
      Ray(Vec3(7, 5, 1), Vec3(0, -2, 0)),
      Ray(Vec3(-10004, 1, 1), Vec3(1, 0, 0)),
      Ray(Vec3(10000, 3, 10000), Vec3(1, 0, 1)) }

\* what the caller's output list holds when a query starts: nothing (the
\* fresh Vec of accel_raytrace), or an entry of an earlier use
EntryLists ==
    { << >>,
      << Candidate(Hittable(0, Vec3(0, 0, 0), 2), None) >> }

\* the ends of the intervals given to the functions of intervals: valid,
\* zero-size and reversed intervals all occur (test_intersection has
\* [0,1], [1,2] and the reversed [1,0])
IntervalEnds == { -2, 0, 2, 4 }

Intervals == { Interval(s, e) : s \in IntervalEnds, e \in IntervalEnds }

\* the extents of the boxes given to the functions of boxes, per axis
AxisDims == { Interval(0, 0), Interval(0, 2), Interval(-2, 2), Interval(2, 6) }

\* the boxes given to the functions of boxes: boxes without a payload
\* (BoundingBox::empty() among them), the covers of two spheres and the
\* cover of a sphere of radius 0
OpBoxes ==
    { with_dims(<< x, y, z >>) : x \in AxisDims, y \in AxisDims, z \in AxisDims }
    \cup { make_covering(Hittable(1, Vec3(0, 0, 4), 2)),
           make_covering(Hittable(2, Vec3(6, 2, 2), 2)),
           make_covering(Hittable(3, Vec3(5, 1, 1), 0)) }

\* the rays given to check_intersection: those of test_bbox_intersection,
\* rays that start on a face of the unit box, rays that start far away, a
\* ray across the axes and a ray that does not move, each with its reverse
OpRays ==
    UNION { { Ray(o, d), Ray(o, [i \in 1..3 |-> -d[i]]) } :
            o \in { Vec3(3, 1, 1), Vec3(3, 3, 1), Vec3(3, 0, 1), Vec3(-10004, 1, 1) },
            d \in { Vec3(2, 0, 0) } }
    \cup { Ray(Vec3(10000, 3, 10000), Vec3(1, 0, 1)),
           Ray(Vec3(1, 1, 1), Vec3(1, 2, -1)),
           Ray(Vec3(1, 1, 1), Vec3(-1, -2, 1)),
           Ray(Vec3(0, 0, 0), Vec3(0, 0, 0)) }

\* the most boxes of a slice given to a function of slices
MaxOpBoxes == 3

\* the boxes of such a slice: those of test_splitting and the cover of a
\* sphere
OpSliceBoxes ==
    { with_dims(<< Interval(0, 2), Interval(0, 4), Interval(-2, 4) >>),
      with_dims(<< Interval(-4, 0), Interval(-6, 0), Interval(-4, 0) >>),
      with_dims(<< Interval(-4, 2), Interval(0, 2), Interval(6, 8) >>),
      make_covering(Hittable(1, Vec3(6, 2, 2), 2)) }

RECURSIVE OpSlices(_)
OpSlices(n) ==
    IF n = 0 THEN { << >> }
    ELSE { Append(s, b) : s \in OpSlices(n - 1), b \in OpSliceBoxes }

\* boxes with reversed intervals (start > end), which with_dims accepts
OpReversedBoxes ==
    { with_dims(<< Interval(4, 2), Interval(2, 6), Interval(-2, -4) >>),
      with_dims(<< Interval(2, -2), Interval(6, 4), Interval(0, 0) >>) }

\* the slices given to make_all_covering that hold any of these boxes
RECURSIVE OpAnySlices(_)
OpAnySlices(n) ==
    IF n = 0 THEN { << >> }
    ELSE { Append(s, b) : s \in OpAnySlices(n - 1),
                          b \in OpSliceBoxes \cup OpReversedBoxes }

\* the primitives given to make_covering, one or two of each shape the
\* scene can hold; normals and axes are unit vectors along a coordinate axis
OpHittables ==
    { Hittable(1, Vec3(0, 0, 4), 2),
      Hittable(2, Vec3(6, 2, 2), 2),
      Disc(3, Vec3(0, 0, 0), Vec3(0, 2, 0), 2),
      Disc(4, Vec3(2, -2, 4), Vec3(2, 0, 0), 4),
      Cylinder(5, Vec3(0, 0, 0), Vec3(0, 0, 2), 2, 4),
      TruncCone(6, Vec3(0, 0, 0), Vec3(2, 0, 0), 45, 2, 4) }

\* the most parameters of a list given to the comparator
MaxParams == 3

\* an Option<f64> as tree_filter stores it: no hit, or the ray parameter
ParamOptions == { None, Some(1), Some(2), Some(3) }

RECURSIVE OpParams(_)
OpParams(n) ==
    IF n = 0 THEN { << >> }
    ELSE { Append(s, x) : s \in OpParams(n - 1), x \in ParamOptions }

\* every axis interval of box a lies within that of box b
Within(a, b) ==
    \A i \in 1..3 : /\ b.dims[i].start <= a.dims[i].start
                     /\ a.dims[i].end <= b.dims[i].end

\* what one call of a function of intervals or boxes is given
OpArgs ==
    { [kind |-> "intervals", in1 |-> a, in2 |-> b] : a \in Intervals, b \in Intervals }
    \cup { [kind |-> "boxes", bbox1 |-> a, bbox2 |-> b] : a \in OpBoxes, b \in OpBoxes }
    \cup { [kind |-> "ray", bbox |-> a, ray |-> r] : a \in OpBoxes, r \in OpRays }
    \cup { [kind |-> "slice", boxes |-> s] :
             s \in UNION { OpSlices(n) : n \in 0..MaxOpBoxes } }
    \cup { [kind |-> "anyslice", boxes |-> s] :
             s \in UNION { OpAnySlices(n) : n \in 0..MaxOpBoxes } }
    \cup { [kind |-> "nested", inner |-> p[1], outer |-> p[2], ray |-> r] :
             p \in { x \in OpBoxes \X OpBoxes : Within(x[1], x[2]) }, r \in OpRays }
    \cup { [kind |-> "hittable", hittable |-> h] : h \in OpHittables }
    \cup { [kind |-> "params", list |-> s] :
             s \in UNION { OpParams(n) : n \in 0..MaxParams } }

\* the most boxes of a slice whose tree accel_raytrace is called on
MaxTraceBoxes == 2

\* the most bounces accel_raytrace is called with (scatter_depth)
MaxDepth == 2

\* the boxes slot i of such a slice may hold: the cover of a sphere of
\* radius 2 at the origin or of radius 1 at (8,0,0), whose material scatters
\* (id i) or emits (id -i)
TraceBoxesAt(i) ==
    { make_covering(Hittable(id, c, r)) :
        id \in { i, -i },
        c \in { Vec3(0, 0, 0) }, r \in { 4 } }
    \cup { make_covering(Hittable(id, c, r)) :
        id \in { i, -i },
        c \in { Vec3(16, 0, 0) }, r \in { 2 } }

RECURSIVE TraceSlices(_)
TraceSlices(n) ==
    IF n = 0 THEN { << >> }
    ELSE { Append(s, b) : s \in TraceSlices(n - 1), b \in TraceBoxesAt(n) }

TraceInputs == UNION { TraceSlices(n) : n \in 1..MaxTraceBoxes }

\* the rays accel_raytrace is called with and the rays a scatter gives:
\* along the x axis through the centres of the spheres, from before, between
\* and after them, and beside the axis, within the box of the large sphere
\* and outside the sphere itself
TraceRays ==
    { Ray(Vec3(-12, 0, 0), Vec3(2, 0, 0)),
      Ray(Vec3(8, 0, 0), Vec3(2, 0, 0)),
      Ray(Vec3(8, 0, 0), Vec3(-2, 0, 0)),
      Ray(Vec3(24, 0, 0), Vec3(2, 0, 0)),
      Ray(Vec3(-12, 3, 3), Vec3(2, 0, 0)),
      Ray(Vec3(8, 3, 3), Vec3(2, 0, 0)) }

\* the rays of the queries that share a tree: along +x and along -x
ConcRays ==
    { Ray(Vec3(3, 1, 1), Vec3(2, 0, 0)),
      Ray(Vec3(3, 1, 1), Vec3(-2, 0, 0)) }

QueryIds == { 1, 2 }

---------------------------------------------------------------------------
(* The state *)

VARIABLES
    input,   \* the slice as the caller filled it
    boxes,   \* the caller's slice
    phase,   \* "init", "built" (make_coveringtree returned) or "panicked"
    tree,    \* Option<Box<CoveringTree>>: the tree make_coveringtree returned
    query,   \* per query: its ray, output list and call stack
    build,   \* the calls of make_coveringtree in progress, outermost first
    call     \* one call of a function of intervals or boxes: what it was
             \* given, what it left of it, and what it returned

vars == << input, boxes, phase, tree, query, build, call >>

\* no call of a function of intervals or boxes has been set up
NoCall == [op |-> "none"]

Idle == [status |-> "idle", ray |-> None, entry |-> << >>,
         stack |-> << >>, subscene |-> << >>, visited |-> << >>, calls |-> 0,
         after |-> << >>]

InitOn(slices) ==
    /\ input \in slices
    /\ boxes = input
    /\ phase = "init"
    /\ tree = None
    /\ query = [k \in QueryIds |-> Idle]
    /\ build = << >>
    /\ call = NoCall

Init == InitOn(Inputs)

\* let tree = make_coveringtree(&mut boxes)
Build ==
    /\ phase = "init"
    /\ \E res \in make_coveringtree(boxes) :
          /\ phase' = IF res.panicked THEN "panicked" ELSE "built"
          /\ tree' = res.tree
          /\ boxes' = res.boxes
    /\ UNCHANGED << input, query, build, call >>

\* tree_filter(&tree, &mut subscene, &ray): the call is made
StartQuery(k, rays) ==
    /\ phase = "built"
    /\ query[k].status = "idle"
    /\ \E ray \in rays, entry \in EntryLists :
          query' = [query EXCEPT ![k] =
                      [status |-> "running", ray |-> Some(ray), entry |-> entry,
                       stack |-> << Frame(<< >>, "enter") >>,
                       subscene |-> entry, visited |-> << >>, calls |-> 0,
                       after |-> << >>]]
    /\ UNCHANGED << input, boxes, phase, tree, build, call >>

\* one cover test of query k
TreeFilterStep(k) ==
    /\ query[k].status = "running"
    /\ LET q  == query[k]
           st == tree_filter_step(Unwrap(tree), Unwrap(q.ray),
                                  [stack |-> q.stack, subscene |-> q.subscene,
                                   visited |-> q.visited, calls |-> q.calls,
                                   after |-> q.after])
       IN  /\ query' = [query EXCEPT ![k] =
                          [q EXCEPT !.stack = st.stack,
                                    !.subscene = st.subscene,
                                    !.visited = st.visited,
                                    !.calls = st.calls,
                                    !.after = st.after,
                                    !.status = IF st.stack = << >> THEN "done" ELSE "running"]]
           /\ tree' = Some(tree_after_visit(Unwrap(tree), q.stack[Len(q.stack)].node))
    /\ UNCHANGED << input, boxes, phase, build, call >>

\* one build, then one query
Next ==
    \/ Build
    \/ StartQuery(1, Rays)
    \/ TreeFilterStep(1)

Spec == Init /\ [][Next]_vars

\* the build alone, on longer slices
InitBuild == InitOn(BuildInputs)

NextBuild == Build

SpecBuild == InitBuild /\ [][NextBuild]_vars

\* the output list of a finished query is dropped (the end of one turn of
\* the loop of accel_raytrace); the next tree_filter starts on a fresh list
DropQuery(k) ==
    /\ query[k].status = "done"
    /\ query' = [query EXCEPT ![k] = Idle]
    /\ UNCHANGED << input, boxes, phase, tree, build, call >>

\* one build, then queries of several workers on the one tree, their cover
\* tests interleaved in any order
InitConc == InitOn(ConcInputs)

NextConc ==
    \/ Build
    \/ \E k \in QueryIds : StartQuery(k, ConcRays)
    \/ \E k \in QueryIds : TreeFilterStep(k)
    \/ \E k \in QueryIds : DropQuery(k)

SpecConc == InitConc /\ [][NextConc]_vars

---------------------------------------------------------------------------
(* make_coveringtree as the steps of its recursion *)

\* a call of make_coveringtree on the part boxes[lo..hi] of the caller's
\* slice.  pc is where the call stands: "enter" before the test of
\* boxes.len(), "left" / "right" while the call on that half is outstanding;
\* tree is the local `tree` and halfway the length of left_half
Call(lo, hi) == [lo |-> lo, hi |-> hi, pc |-> "enter", tree |-> None, halfway |-> 0]

\* the Box t is returned to the call on top of the stack: after the left
\* half the call goes on to the right half, after the right half it returns
\* its own tree; `returned` is the Box the outermost call returns
RECURSIVE return_to(_, _)
return_to(stack, t) ==
    IF stack = << >> THEN [stack |-> stack, returned |-> Some(t)]
    ELSE LET n   == Len(stack)
             top == stack[n]
         IN  IF top.pc = "left"
             THEN [stack |->
                      Append([stack EXCEPT
                                 ![n].pc = "right",
                                 ![n].tree = Some([Unwrap(top.tree) EXCEPT !.left = Some(t)])],
                             Call(top.lo + top.halfway, top.hi)),
                   returned |-> None]
             ELSE return_to(SubSeq(stack, 1, n - 1),
                            [Unwrap(top.tree) EXCEPT !.right = Some(t)])

\* make_coveringtree(&mut boxes): the call is made
CallMakeCoveringtree ==
    /\ phase = "init"
    /\ phase' = "building"
    /\ build' = << Call(1, Len(boxes)) >>
    /\ UNCHANGED << input, boxes, tree, query, call >>

\* the body of the call on top of the stack, up to the next call: the split
\* and the call on left_half, or the leaf and the returns it sets off.  The
\* outcomes, one for each way the sort may arrange the slice.
make_coveringtree_step(bxs, stack) ==
    LET n     == Len(stack)
        top   == stack[n]
        slice == SubSeq(bxs, top.lo, top.hi)
    IN  IF more_than_one(slice)
        THEN { [boxes |-> SubSeq(bxs, 1, top.lo - 1) \o h.left \o h.right
                             \o SubSeq(bxs, top.hi + 1, Len(bxs)),
                build |-> Append([stack EXCEPT
                                     ![n].pc = "left",
                                     ![n].tree = Some(make_from(slice)),
                                     ![n].halfway = Len(h.left)],
                                 Call(top.lo, top.lo + Len(h.left) - 1)),
                panicked |-> FALSE,
                returned |-> None] : h \in split_on_covering(slice) }
        ELSE LET r == take_first(slice)
             IN  IF r.panicked
                 THEN { [boxes |-> bxs, build |-> << >>,
                         panicked |-> TRUE, returned |-> None] }
                 ELSE LET ret == return_to(SubSeq(stack, 1, n - 1), Unwrap(r.tree))
                      IN  { [boxes |-> [bxs EXCEPT ![top.lo] = r.boxes[1]],
                             build |-> ret.stack,
                             panicked |-> FALSE,
                             returned |-> ret.returned] }

MakeCoveringtreeStep ==
    /\ phase = "building"
    /\ build # << >>
    /\ \E o \in make_coveringtree_step(boxes, build) :
          /\ boxes' = o.boxes
          /\ build' = o.build
          /\ tree' = o.returned
          /\ phase' = IF o.panicked THEN "panicked"
                      ELSE IF IsSome(o.returned) THEN "built"
                      ELSE "building"
    /\ UNCHANGED << input, query, call >>

\* the build step by step; the thread that builds keeps running
InitSteps == InitOn(StepInputs)

NextSteps ==
    \/ CallMakeCoveringtree
    \/ MakeCoveringtreeStep

SpecSteps == InitSteps /\ [][NextSteps]_vars /\ WF_vars(NextSteps)

---------------------------------------------------------------------------
(* lib.rs: accel_raytrace, one bounce at a time *)

\* one pass of the loop of accel_raytrace on `ray`: the fresh list, the
\* query, the choice of the closest hit, and the branch taken: "emitter"
\* and "sky" return, "scatter" goes on with the scattered ray
bounce(root, ray) ==
    LET entry    == << >>
        subscene == tree_filter(root, entry, ray)
        selected == min_by(params_of(subscene))
        is_hit   == IsSome(selected) /\ IsSome(subscene[Unwrap(selected)].param)
    IN  [ray      |-> ray,
         entry    |-> entry,
         subscene |-> subscene,
         selected |-> selected,
         branch   |-> IF ~is_hit THEN "sky"
                      ELSE IF is_emitter(subscene[Unwrap(selected)].hittable)
                           THEN "emitter"
                           ELSE "scatter"]

\* accel_raytrace(&ray, &tree, scatter_depth) is called; with a
\* scatter_depth of 0 the loop is not entered and the call returns
CallAccelRaytrace ==
    /\ phase = "built"
    /\ call = NoCall
    /\ \E ray \in TraceRays, depth \in 0..MaxDepth :
          call' = [op |-> "accel_raytrace", ray |-> ray, scatter_depth |-> depth,
                   bounces |-> << >>,
                   status |-> IF depth = 0 THEN "returned" ELSE "running"]
    /\ UNCHANGED << input, boxes, phase, tree, query, build >>

\* one pass of the loop `for _ in 1..=scatter_depth`; the ray that
\* material.scatter gives is drawn by a random number generator
Bounce ==
    /\ call.op = "accel_raytrace"
    /\ call.status = "running"
    /\ LET b == bounce(Unwrap(tree), call.ray)
           n == Len(call.bounces) + 1
       IN  \E scatter_ray \in TraceRays :
              call' = [call EXCEPT
                         !.bounces = Append(@, b),
                         !.ray = IF b.branch = "scatter" THEN scatter_ray ELSE @,
                         !.status = IF b.branch = "scatter" /\ n < call.scatter_depth
                                    THEN "running" ELSE "returned"]
    /\ UNCHANGED << input, boxes, phase, tree, query, build >>

InitTrace == InitOn(TraceInputs)

NextTrace ==
    \/ Build
    \/ CallAccelRaytrace
    \/ Bounce

SpecTrace == InitTrace /\ [][NextTrace]_vars

---------------------------------------------------------------------------
(* The functions of intervals and boxes, one call at a time *)

\* the arguments are in place and no function has been called on them
Ready(args) == [op |-> "ready", given |-> args, left |-> args, out |-> None]

\* the call of op has returned out and left the arguments as `left`
Called(op, given, left, out) == [op |-> op, given |-> given, left |-> left, out |-> out]

\* intersection(&in1, &in2)
CallIntersection ==
    /\ call.op = "ready" /\ call.given.kind = "intervals"
    /\ call' = Called("intersection", call.given, call.given,
                      intersection(call.given.in1, call.given.in2))
    /\ UNCHANGED << input, boxes, phase, tree, query, build >>

\* cover(&in1, &in2)
CallCover ==
    /\ call.op = "ready" /\ call.given.kind = "intervals"
    /\ call' = Called("cover", call.given, call.given,
                      cover(call.given.in1, call.given.in2))
    /\ UNCHANGED << input, boxes, phase, tree, query, build >>

\* make_cover_of(&bbox1, &bbox2)
CallMakeCoverOf ==
    /\ call.op = "ready" /\ call.given.kind = "boxes"
    /\ call' = Called("make_cover_of", call.given, call.given,
                      make_cover_of(call.given.bbox1, call.given.bbox2))
    /\ UNCHANGED << input, boxes, phase, tree, query, build >>

\* bbox1.compose_with(&bbox2): bbox1 is moved into the call
CallComposeWith ==
    /\ call.op = "ready" /\ call.given.kind = "boxes"
    /\ call' = Called("compose_with", call.given,
                      [kind |-> "boxes", bbox2 |-> call.given.bbox2],
                      compose_with(call.given.bbox1, call.given.bbox2))
    /\ UNCHANGED << input, boxes, phase, tree, query, build >>

\* bbox1.longest_axis()
CallLongestAxis ==
    /\ call.op = "ready" /\ call.given.kind = "boxes"
    /\ call' = Called("longest_axis", call.given, call.given,
                      longest_axis(call.given.bbox1))
    /\ UNCHANGED << input, boxes, phase, tree, query, build >>

\* bbox.check_intersection(&ray)
CallCheckIntersection ==
    /\ call.op = "ready" /\ call.given.kind = "ray"
    /\ call' = Called("check_intersection", call.given, call.given,
                      check_intersection(call.given.bbox, call.given.ray))
    /\ UNCHANGED << input, boxes, phase, tree, query, build >>

\* boxes.make_all_covering()
CallMakeAllCovering ==
    /\ call.op = "ready" /\ call.given.kind \in { "slice", "anyslice" }
    /\ call' = Called("make_all_covering", call.given, call.given,
                      make_all_covering(call.given.boxes))
    /\ UNCHANGED << input, boxes, phase, tree, query, build >>

\* split_on_covering(&mut boxes): the slice is sorted in place and the two
\* halves are parts of it
CallSplitOnCovering ==
    /\ call.op = "ready" /\ call.given.kind = "slice"
    /\ \E h \in split_on_covering(call.given.boxes) :
          call' = Called("split_on_covering", call.given,
                         [kind |-> "slice", boxes |-> h.left \o h.right], h)
    /\ UNCHANGED << input, boxes, phase, tree, query, build >>

\* inner.check_intersection(&ray) and outer.check_intersection(&ray), on a
\* box and a box around it
CallCheckIntersectionNested ==
    /\ call.op = "ready" /\ call.given.kind = "nested"
    /\ call' = Called("check_intersection_nested", call.given, call.given,
                      [inner |-> check_intersection(call.given.inner, call.given.ray),
                       outer |-> check_intersection(call.given.outer, call.given.ray)])
    /\ UNCHANGED << input, boxes, phase, tree, query, build >>

\* tree_filter(&root, &mut subscene, &ray) on a fresh list and the tree of
\* one leaf that make_coveringtree makes of the box
CallTreeFilterOnLeaf ==
    /\ call.op = "ready" /\ call.given.kind = "ray"
    /\ call' = Called("tree_filter", call.given, call.given,
                      tree_filter(CoveringTree(call.given.bbox, None, None),
                                  << >>, call.given.ray))
    /\ UNCHANGED << input, boxes, phase, tree, query, build >>

\* make_coveringtree(&mut boxes) on a slice: the tree it returns, or its
\* panic, and the slice as it leaves it
CallMakeCoveringtreeOnSlice ==
    /\ call.op = "ready" /\ call.given.kind = "slice"
    /\ \E res \in make_coveringtree(call.given.boxes) :
          call' = Called("make_coveringtree", call.given,
                         [kind |-> "slice", boxes |-> res.boxes],
                         [panicked |-> res.panicked, tree |-> res.tree])
    /\ UNCHANGED << input, boxes, phase, tree, query, build >>

\* make_coveringtree(&mut boxes) a second time, on the slice as the first
\* call left it; `before` keeps the slice as it was given to the first call
CallMakeCoveringtreeAgain ==
    /\ call.op = "make_coveringtree" /\ ~call.out.panicked
    /\ \E res \in make_coveringtree(call.left.boxes) :
          call' = Called("make_coveringtree_again",
                         [kind |-> "slice", boxes |-> call.left.boxes,
                          before |-> call.given.boxes],
                         [kind |-> "slice", boxes |-> res.boxes],
                         [panicked |-> res.panicked, tree |-> res.tree])
    /\ UNCHANGED << input, boxes, phase, tree, query, build >>

\* hittable.make_covering(): the hittable is moved into the call
CallMakeCovering ==
    /\ call.op = "ready" /\ call.given.kind = "hittable"
    /\ call' = Called("make_covering", call.given, [kind |-> "hittable"],
                      make_covering_match(call.given.hittable))
    /\ UNCHANGED << input, boxes, phase, tree, query, build >>

\* cmp_intersection(x, y) for every two entries x, y of a list
CallCmpIntersection ==
    /\ call.op = "ready" /\ call.given.kind = "params"
    /\ call' = Called("cmp_intersection", call.given, call.given,
                      [i \in 1..Len(call.given.list) |->
                          [j \in 1..Len(call.given.list) |->
                              cmp_intersection(call.given.list[i], call.given.list[j])]])
    /\ UNCHANGED << input, boxes, phase, tree, query, build >>

\* list.iter().min_by(|x, y| cmp_intersection(x, y))
CallMinBy ==
    /\ call.op = "ready" /\ call.given.kind = "params"
    /\ call' = Called("min_by", call.given, call.given, min_by(call.given.list))
    /\ UNCHANGED << input, boxes, phase, tree, query, build >>

InitOps ==
    /\ input = << >>
    /\ boxes = << >>
    /\ phase = "init"
    /\ tree = None
    /\ query = [k \in QueryIds |-> Idle]
    /\ build = << >>
    /\ call \in { Ready(a) : a \in OpArgs }

NextOps ==
    \/ CallIntersection
    \/ CallCover
    \/ CallMakeCoverOf
    \/ CallComposeWith
    \/ CallLongestAxis
    \/ CallCheckIntersection
    \/ CallMakeAllCovering
    \/ CallSplitOnCovering
    \/ CallCheckIntersectionNested
    \/ CallTreeFilterOnLeaf
    \/ CallMakeCoveringtreeOnSlice
    \/ CallMakeCoveringtreeAgain
    \/ CallMakeCovering
    \/ CallCmpIntersection
    \/ CallMinBy

SpecOps == InitOps /\ [][NextOps]_vars

---------------------------------------------------------------------------
(* Vocabulary of the properties *)

IsLeaf(node) == IsNone(node.left) /\ IsNone(node.right)

\* the paths of all nodes of a tree
RECURSIVE Paths(_)
Paths(root) ==
    { << >> }
    \cup (IF IsSome(root.left)
          THEN { << "left" >> \o p : p \in Paths(Unwrap(root.left)) } ELSE { })
    \cup (IF IsSome(root.right)
          THEN { << "right" >> \o p : p \in Paths(Unwrap(root.right)) } ELSE { })

\* the boxes of the leaves of a tree, left to right
RECURSIVE Leaves(_)
Leaves(root) ==
    IF IsLeaf(root) THEN << root.cover >>
    ELSE (IF IsSome(root.left) THEN Leaves(Unwrap(root.left)) ELSE << >>)
         \o (IF IsSome(root.right) THEN Leaves(Unwrap(root.right)) ELSE << >>)

\* how many pairs of an output list refer to hittable h
CountOf(out, h) == Cardinality({ i \in 1..Len(out) : out[i].hittable = h })

\* how many elements of an output list are the pair c
CountPair(out, c) == Cardinality({ i \in 1..Len(out) : out[i] = c })

\* what a query appended to the list it was given
Appended(q) == SubSeq(q.subscene, Len(q.entry) + 1, Len(q.subscene))

AllBoxed(bs) == \A i \in 1..Len(bs) : IsSome(bs[i].boxed)

Done(k) == query[k].status = "done"

---------------------------------------------------------------------------
(* C1 *)

\* the ray passes check_intersection on the own box of every box of the slice
HitsEvery(bs, ray) == \A i \in 1..Len(bs) : check_intersection(bs[i], ray)

\* C1 (no loss): when the N >= 1 boxes given to make_coveringtree all carry
\* a payload and the ray passes check_intersection on each of them, a
\* finished tree_filter that started from an empty list holds exactly N
\* pairs, exactly one for each primitive of the input.
C1_NoLoss ==
    \A k \in QueryIds :
        (/\ Done(k)
         /\ query[k].entry = << >>
         /\ Len(input) >= 1
         /\ AllBoxed(input)
         /\ HitsEvery(input, Unwrap(query[k].ray)))
        => /\ Len(query[k].subscene) = Len(input)
           /\ \A i \in 1..Len(input) :
                 CountOf(query[k].subscene, Unwrap(input[i].boxed)) = 1

\* a finished query whose ray hits all three boxes of a slice of three
\* different primitives
C1_Witness ==
    \E k \in QueryIds :
        /\ Done(k)
        /\ query[k].entry = << >>
        /\ Len(input) = 3
        /\ AllBoxed(input)
        /\ input[1].dims # input[2].dims
        /\ HitsEvery(input, Unwrap(query[k].ray))
        /\ Len(query[k].subscene) = 3

---------------------------------------------------------------------------
(* C2 *)

\* the leaves of the tree whose own box passes check_intersection
HitLeaves(ls, ray) == { i \in 1..Len(ls) : check_intersection(ls[i], ray) }

\* C2: on a tree whose leaves all carry a payload, a finished tree_filter
\* has appended exactly the pairs (primitive, intersect(primitive, ray)) of
\* the leaves whose own box passes check_intersection, each once, whether or
\* not the exact test hits, and nothing for any other leaf: what testing
\* every leaf box directly gives.
C2_CandidatesAreHitLeaves ==
    \A k \in QueryIds :
        (Done(k) /\ AllBoxed(Leaves(Unwrap(tree))))
        => LET ls  == Leaves(Unwrap(tree))
               ray == Unwrap(query[k].ray)
               out == Appended(query[k])
           IN  /\ Len(out) = Cardinality(HitLeaves(ls, ray))
               /\ \A i \in 1..Len(ls) :
                     LET h == Unwrap(ls[i].boxed)
                         n == IF i \in HitLeaves(ls, ray) THEN 1 ELSE 0
                     IN  /\ CountOf(out, h) = n
                         /\ CountPair(out, Candidate(h, shape_intersect(h, ray))) = n

\* a finished query on three payload leaves: one leaf missed by the ray, one
\* hit whose exact test reports no hit, one hit whose exact test hits
C2_Witness ==
    \E k \in QueryIds :
        /\ Done(k)
        /\ AllBoxed(Leaves(Unwrap(tree)))
        /\ Len(Leaves(Unwrap(tree))) = 3
        /\ Cardinality(HitLeaves(Leaves(Unwrap(tree)), Unwrap(query[k].ray))) = 2
        /\ \E c \in { Appended(query[k])[i] : i \in 1..Len(Appended(query[k])) } :
              IsNone(c.param)
        /\ \E c \in { Appended(query[k])[i] : i \in 1..Len(Appended(query[k])) } :
              IsSome(c.param)

---------------------------------------------------------------------------
(* C3 *)

Abs(x) == IF x < 0 THEN -x ELSE x
Sgn(x) == IF x < 0 THEN -1 ELSE 1

ValidDims(bbox) == \A i \in 1..3 : bbox.dims[i].start <= bbox.dims[i].end

\* the parameters t at which orig + t * dir lies in the interval of axis i
\* (dir[i] # 0): the closed range [lo, hi] / |dir[i]|
AxisLo(bbox, ray, i) ==
    LET a == (bbox.dims[i].start - ray.orig[i]) * Sgn(ray.dir[i])
        b == (bbox.dims[i].end - ray.orig[i]) * Sgn(ray.dir[i])
    IN  IF a < b THEN a ELSE b

AxisHi(bbox, ray, i) ==
    LET a == (bbox.dims[i].start - ray.orig[i]) * Sgn(ray.dir[i])
        b == (bbox.dims[i].end - ray.orig[i]) * Sgn(ray.dir[i])
    IN  IF a < b THEN b ELSE a

\* there is one t with orig + t * dir inside all three axis intervals: an
\* axis the ray does not move along must hold the origin, and the ranges of
\* the other axes must meet (ranges on a line meet when each two of them do)
RayMeetsBox(bbox, ray) ==
    /\ \A i \in 1..3 :
          ray.dir[i] = 0 =>
             bbox.dims[i].start <= ray.orig[i] /\ ray.orig[i] <= bbox.dims[i].end
    /\ \A i \in 1..3 : \A j \in 1..3 :
          (ray.dir[i] # 0 /\ ray.dir[j] # 0) =>
             AxisLo(bbox, ray, i) * Abs(ray.dir[j]) <= AxisHi(bbox, ray, j) * Abs(ray.dir[i])

\* C3, as claimed: on every box with valid dims that a query has tested,
\* check_intersection is true exactly when some single t puts
\* orig + t * dir inside all three axis intervals.
C3_SlabTestIsExact ==
    \A k \in QueryIds :
        \A i \in 1..Len(query[k].visited) :
            LET bbox == NodeAt(Unwrap(tree), query[k].visited[i]).cover
                ray  == Unwrap(query[k].ray)
            IN  ValidDims(bbox) =>
                   (check_intersection(bbox, ray) <=> RayMeetsBox(bbox, ray))

---------------------------------------------------------------------------
(* C4 *)

Built == phase = "built"

IsInternal(node) == ~IsLeaf(node)

\* C4 (containment): the cover stored at every internal node of a built
\* tree has the dims of make_all_covering of the leaf boxes beneath the
\* node, whichever way the sorts arranged the slice.
C4_CoverIsAllCovering ==
    Built =>
       \A p \in Paths(Unwrap(tree)) :
          LET node == NodeAt(Unwrap(tree), p)
          IN  IsInternal(node) =>
                 node.cover.dims = make_all_covering(Leaves(node)).dims

\* a built tree with an internal node below the root whose two leaves differ
C4_Witness ==
    /\ Built
    /\ \E p \in Paths(Unwrap(tree)) :
          /\ p # << >>
          /\ IsInternal(NodeAt(Unwrap(tree), p))
          /\ Leaves(NodeAt(Unwrap(tree), p))[1].dims
                # Leaves(NodeAt(Unwrap(tree), p))[2].dims
          /\ NodeAt(Unwrap(tree), p).cover.dims # Unwrap(tree).cover.dims

---------------------------------------------------------------------------
(* C5 *)

\* how many elements of a sequence of boxes are the box b (dims and payload)
CountBox(bs, b) == Cardinality({ i \in 1..Len(bs) : bs[i] = b })

\* C5: a tree built from N >= 1 boxes has exactly N leaves, the leaf boxes
\* (dims and payload) are the input boxes in some order, each input box in
\* exactly one leaf, and no internal node carries a payload.
C5_LeavesArePermutation ==
    Built =>
       LET ls == Leaves(Unwrap(tree))
       IN  /\ Len(ls) = Len(input)
           /\ \A i \in 1..Len(input) : CountBox(ls, input[i]) = CountBox(input, input[i])
           /\ \A p \in Paths(Unwrap(tree)) :
                 IsInternal(NodeAt(Unwrap(tree), p)) =>
                    IsNone(NodeAt(Unwrap(tree), p).cover.boxed)

\* a tree built from three payload boxes whose leaves are not in input order
C5_Witness ==
    /\ Built
    /\ Len(input) = 3
    /\ AllBoxed(input)
    /\ Leaves(Unwrap(tree)) # input
    /\ Len(Leaves(Unwrap(tree))) = 3

---------------------------------------------------------------------------
(* C6 *)

\* C6: every node of a built tree is a leaf (no children) holding one box of
\* the input with its payload, or an internal node with no payload and both
\* children; a slice of one box gives a single leaf and a slice of two an
\* internal node over two leaves.
C6_NodeShapes ==
    Built =>
       LET root == Unwrap(tree)
       IN  /\ \A p \in Paths(root) :
                 LET node == NodeAt(root, p)
                 IN  \/ /\ IsNone(node.left) /\ IsNone(node.right)
                        /\ \E i \in 1..Len(input) : node.cover = input[i]
                     \/ /\ IsSome(node.left) /\ IsSome(node.right)
                        /\ IsNone(node.cover.boxed)
           /\ Len(input) = 1 => IsLeaf(root)
           /\ Len(input) = 2 =>
                 /\ IsSome(root.left) /\ IsSome(root.right)
                 /\ IsLeaf(Unwrap(root.left)) /\ IsLeaf(Unwrap(root.right))

\* a tree built from two payload boxes
C6_Witness ==
    /\ Built
    /\ Len(input) = 2
    /\ AllBoxed(input)
    /\ IsInternal(Unwrap(tree))
    /\ IsSome(Unwrap(Unwrap(tree).left).cover.boxed)

---------------------------------------------------------------------------
(* C7 *)

RECURSIVE Depth(_)
Depth(root) ==
    IF IsLeaf(root) THEN 0
    ELSE LET l == IF IsSome(root.left) THEN Depth(Unwrap(root.left)) ELSE 0
             r == IF IsSome(root.right) THEN Depth(Unwrap(root.right)) ELSE 0
         IN  1 + (IF l > r THEN l ELSE r)

\* the least d with 2^d >= n
RECURSIVE CeilLog2(_)
CeilLog2(n) == IF n <= 1 THEN 0 ELSE 1 + CeilLog2((n + 1) \div 2)

\* C7 (balance by count): an internal node over k leaves has floor(k/2) of
\* them on the left and the other ceil(k/2) on the right, and a tree built
\* from N boxes has depth ceil(log2 N), whatever the boxes are.
C7_BalancedByCount ==
    Built =>
       LET root == Unwrap(tree)
       IN  /\ \A p \in Paths(root) :
                 LET node == NodeAt(root, p)
                     k    == Len(Leaves(node))
                 IN  IsInternal(node) =>
                        /\ Len(Leaves(Unwrap(node.left))) = k \div 2
                        /\ Len(Leaves(Unwrap(node.right))) = k - (k \div 2)
           /\ Depth(root) = CeilLog2(Len(input))

\* a tree built from five boxes of different sizes: two leaves under the
\* left child of the root, three under the right
C7_Witness ==
    /\ Built
    /\ Len(input) = 5
    /\ input[1].dims # input[2].dims
    /\ Depth(Unwrap(tree)) = 3
    /\ Len(Leaves(Unwrap(Unwrap(tree).left))) = 2
    /\ Len(Leaves(Unwrap(Unwrap(tree).right))) = 3

---------------------------------------------------------------------------
(* C8 *)

\* path p leads to the node at q or to a node above it
IsPrefix(p, q) == Len(p) <= Len(q) /\ SubSeq(q, 1, Len(p)) = p

\* the i-th cover test of query k was false
TestFailed(k, i) ==
    ~check_intersection(NodeAt(Unwrap(tree), query[k].visited[i]).cover,
                        Unwrap(query[k].ray))

\* the output list and the count of shape.intersect calls as the i-th visit
\* of query k found them
Before(k, i) ==
    IF i = 1 THEN [subscene |-> query[k].entry, calls |-> 0]
    ELSE query[k].after[i - 1]

\* C8 (pruning): when check_intersection(node.cover, ray) is false, the call
\* of tree_filter on the node returns at once: the output list is left
\* exactly as the call found it, no shape.intersect is called, no node
\* beneath the node is ever visited, and no call on the node or beneath it
\* stays on the stack.
C8_Pruning ==
    \A k \in QueryIds :
        \A i \in 1..Len(query[k].visited) :
            TestFailed(k, i) =>
               /\ query[k].after[i] = Before(k, i)
               /\ \A j \in 1..Len(query[k].visited) :
                     j # i => ~IsPrefix(query[k].visited[i], query[k].visited[j])
               /\ \A f \in 1..Len(query[k].stack) :
                     ~IsPrefix(query[k].visited[i], query[k].stack[f].node)

\* a finished query that was pruned at an internal node below the root after
\* it had appended a pair
C8_Witness ==
    \E k \in QueryIds :
        /\ Done(k)
        /\ Appended(query[k]) # << >>
        /\ \E i \in 1..Len(query[k].visited) :
              /\ query[k].visited[i] # << >>
              /\ IsInternal(NodeAt(Unwrap(tree), query[k].visited[i]))
              /\ TestFailed(k, i)
              /\ i = Len(query[k].visited)

---------------------------------------------------------------------------
(* C9 *)

\* C9: make_coveringtree called with an empty slice never returns a tree:
\* the call panics, and no node (so none holding the sentinel box of
\* BoundingBox::empty()) comes back.
C9_EmptySlicePanics ==
    (phase # "init" /\ input = << >>) => (phase = "panicked" /\ tree = None)

\* the build of the empty slice has been run
C9_Witness ==
    /\ input = << >>
    /\ boxes = << >>
    /\ phase = "panicked"

---------------------------------------------------------------------------
(* C10 *)

\* a finished query holds the list tree_filter gives when it runs alone on
\* the tree, from the same entry list and with the same ray
C10_OutputAsAlone ==
    \A k \in QueryIds :
        Done(k) => query[k].subscene
                      = tree_filter(Unwrap(tree), query[k].entry, Unwrap(query[k].ray))

\* two finished queries with the same ray and entry list hold the same list
C10_SameRaySameList ==
    \A j \in QueryIds : \A k \in QueryIds :
        (Done(j) /\ Done(k) /\ query[j].ray = query[k].ray
                 /\ query[j].entry = query[k].entry)
        => query[j].subscene = query[k].subscene

\* no step taken once the tree is built changes the tree
C10_TreeUntouched == phase = "built" => tree' = tree

\* C10: tree_filter queries interleaved in any order on one built tree, each
\* with its own output list, never modify a node of the tree (cover, left,
\* right, payload); each finished query holds the list it would hold had it
\* run alone, and queries with the same ray hold the same list.
C10_ConcurrentQueries ==
    /\ [](C10_OutputAsAlone /\ C10_SameRaySameList)
    /\ [][C10_TreeUntouched]_vars

\* two queries with different rays both in the middle of their traversal,
\* one of them with a pair already appended
C10_Witness ==
    /\ \A k \in QueryIds :
          query[k].status = "running" /\ Len(query[k].visited) >= 1
    /\ query[1].ray # query[2].ray
    /\ Appended(query[1]) # << >>
    /\ Len(query[2].visited) >= 2

---------------------------------------------------------------------------
(* C11 *)

\* how many boxes a call of make_coveringtree was given
CallLen(c) == c.hi - c.lo + 1

\* every call that has split its slice has a left_half and a right_half of
\* at least one box each, and every call made on a half is on a non-empty
\* slice strictly shorter than the slice of its caller
C11_HalvesShorter ==
    /\ \A f \in 1..Len(build) :
          build[f].pc # "enter" =>
             /\ build[f].halfway >= 1
             /\ CallLen(build[f]) - build[f].halfway >= 1
    /\ \A f \in 2..Len(build) :
          /\ CallLen(build[f]) >= 1
          /\ CallLen(build[f]) < CallLen(build[f - 1])

\* a build that is given at least one box comes to its return
C11_Returns == (phase = "init" /\ Len(input) >= 1) ~> (phase = "built")

\* C11: make_coveringtree terminates for every slice of length >= 1:
\* whenever it recurses, both halves of split_on_covering are non-empty and
\* strictly shorter than the slice they were split from, and the outermost
\* call returns.
C11_BuildTerminates == []C11_HalvesShorter /\ C11_Returns

\* a build of five boxes three calls deep: the call on the five, the call on
\* its right half of three, and the call on that one's right half of two
C11_Witness ==
    /\ phase = "building"
    /\ Len(build) = 3
    /\ CallLen(build[1]) = 5
    /\ CallLen(build[2]) = 3
    /\ CallLen(build[3]) = 2

---------------------------------------------------------------------------
(* C13 *)

\* the least start and the greatest end of the boxes of a slice on axis i
LeastStart(bs, i) ==
    CHOOSE s \in { bs[j].dims[i].start : j \in 1..Len(bs) } :
        \A j \in 1..Len(bs) : s <= bs[j].dims[i].start

GreatestEnd(bs, i) ==
    CHOOSE e \in { bs[j].dims[i].end : j \in 1..Len(bs) } :
        \A j \in 1..Len(bs) : e >= bs[j].dims[i].end

\* C13, as claimed: BoundingBox::empty() is an identity for covering:
\* empty.compose_with(b) has the dims of b for every valid box b, and
\* make_all_covering of a non-empty slice is, on each axis, [the least start
\* of the boxes, the greatest end of the boxes].
C13_EmptyIsIdentity ==
    /\ (/\ call.op = "compose_with"
        /\ call.given.bbox1 = empty
        /\ ValidDims(call.given.bbox2))
       => call.out.dims = call.given.bbox2.dims
    /\ (/\ call.op = "make_all_covering"
        /\ Len(call.given.boxes) >= 1)
       => \A i \in 1..3 :
             call.out.dims[i] = Interval(LeastStart(call.given.boxes, i),
                                         GreatestEnd(call.given.boxes, i))

---------------------------------------------------------------------------
(* C14 *)

\* the ray does not move along axis i
ZeroDir(ray, i) == ray.dir[i] = 0

\* the origin of the ray lies within the extent of the box on axis i
OrigWithin(bbox, ray, i) ==
    bbox.dims[i].start <= ray.orig[i] /\ ray.orig[i] <= bbox.dims[i].end

\* the verdict the other axes determine: the time intervals of the axes the
\* ray moves along, intersected as check_intersection intersects them, with
\* an axis the ray does not move along putting no bound on the time
OtherAxesVerdict(bbox, ray) ==
    LET times == [i \in 1..3 |->
                    IF ZeroDir(ray, i) THEN Interval(-2000000000, 2000000000)
                    ELSE axis_times(bbox.dims[i], ray.orig[i], ray.dir[i])]
        xy    == intersection(times[1], times[2])
    IN  IF IsNone(xy) THEN FALSE
        ELSE IsSome(intersection(Unwrap(xy), times[3]))

\* C14, as claimed: for a ray with dir[i] = 0 on some axis, the divisor
\* 1e-4 gives the verdict of the exact special case: a miss whenever
\* orig[i] lies outside dims[i] on such an axis, and otherwise the verdict
\* the other axes determine.
C14_EpsilonIsExact ==
    (/\ call.op = "check_intersection"
     /\ \E i \in 1..3 : ZeroDir(call.given.ray, i))
    => LET bbox == call.given.bbox
           ray  == call.given.ray
       IN  IF \E i \in 1..3 : ZeroDir(ray, i) /\ ~OrigWithin(bbox, ray, i)
           THEN call.out = FALSE
           ELSE call.out = OtherAxesVerdict(bbox, ray)

---------------------------------------------------------------------------
(* C15 *)

\* the ray with the same origin and the negated direction
Reversed(ray) == Ray(ray.orig, [i \in 1..3 |-> -ray.dir[i]])

\* C15, as claimed: check_intersection gives the same verdict for a ray and
\* for the ray with the same origin and the negated direction.
C15_SameVerdictReversed ==
    call.op = "check_intersection"
    => call.out = check_intersection(call.given.bbox, Reversed(call.given.ray))

---------------------------------------------------------------------------
(* C16 *)

\* the extent of a box along the axis of source index a (0..2)
Extent(bbox, a) == size(bbox.dims[a + 1])

\* C16: longest_axis returns 0 iff size0 is strictly greater than both size1
\* and size2; otherwise 1 iff size1 is strictly greater than size2;
\* otherwise 2; and the extent along the returned axis is the greatest of
\* the three.
C16_LongestAxis ==
    call.op = "longest_axis"
    => LET bbox == call.given.bbox1
           axis == call.out
       IN  /\ axis \in { 0, 1, 2 }
           /\ axis = 0 <=> (Extent(bbox, 0) > Extent(bbox, 1)
                            /\ Extent(bbox, 0) > Extent(bbox, 2))
           /\ axis # 0 => (axis = 1 <=> Extent(bbox, 1) > Extent(bbox, 2))
           /\ \A a \in { 0, 1, 2 } : Extent(bbox, axis) >= Extent(bbox, a)

\* longest_axis has been called on a box whose two longest extents are equal
C16_Witness ==
    /\ call.op = "longest_axis"
    /\ Extent(call.given.bbox1, 0) = Extent(call.given.bbox1, 1)
    /\ Extent(call.given.bbox1, 1) > Extent(call.given.bbox1, 2)
    /\ Extent(call.given.bbox1, 2) > 0
    /\ call.out = 1

---------------------------------------------------------------------------
(* C17 *)

\* C17: split_on_covering leaves the slice sorted in non-decreasing order of
\* the boxes' extent along the longest axis of make_all_covering of the
\* slice as it was given, and splits it at len / 2: the two halves together
\* are the slice, a permutation of what was given, left has floor(len / 2)
\* boxes and right the other ceil(len / 2), and no box of left has a greater
\* extent along that axis than a box of right.
C17_SortedSplit ==
    call.op = "split_on_covering"
    => LET given == call.given.boxes
           after == call.left.boxes
           left  == call.out.left
           right == call.out.right
           axis  == longest_axis(make_all_covering(given))
           n     == Len(given)
       IN  /\ \A i \in 1..Len(after) : \A j \in 1..Len(after) :
                 i < j => Extent(after[i], axis) <= Extent(after[j], axis)
           /\ left \o right = after
           /\ Len(after) = n
           /\ \A i \in 1..n : CountBox(after, given[i]) = CountBox(given, given[i])
           /\ Len(left) = n \div 2
           /\ Len(right) = n - (n \div 2)
           /\ \A i \in 1..Len(left) : \A j \in 1..Len(right) :
                 Extent(left[i], axis) <= Extent(right[j], axis)

\* split_on_covering has been called on the three boxes of test_splitting: the
\* longest axis of their cover is not the first, and the sort moved boxes
C17_Witness ==
    /\ call.op = "split_on_covering"
    /\ Len(call.given.boxes) = 3
    /\ longest_axis(make_all_covering(call.given.boxes)) # 0
    /\ call.left.boxes # call.given.boxes
    /\ call.given.boxes[1] # call.given.boxes[2]
    /\ call.given.boxes[2] # call.given.boxes[3]
    /\ call.given.boxes[1] # call.given.boxes[3]
    /\ \A i \in 1..3 : IsNone(call.given.boxes[i].boxed)
    /\ Len(call.out.left) = 1
    /\ Len(call.out.right) = 2

---------------------------------------------------------------------------
(* C18 *)

\* C18: make_cover_of(a, b) returns a box whose interval on each axis is
\* cover(a.dims[axis], b.dims[axis]) and whose payload is None whatever
\* payloads a and b carry, and it leaves a and b as they were.
C18_MakeCoverOf ==
    call.op = "make_cover_of"
    => /\ \A i \in 1..3 :
             call.out.dims[i] = cover(call.given.bbox1.dims[i], call.given.bbox2.dims[i])
       /\ call.out.boxed = None
       /\ call.left = call.given

\* make_cover_of has been called on the covers of two different spheres
C18_Witness ==
    /\ call.op = "make_cover_of"
    /\ IsSome(call.given.bbox1.boxed)
    /\ IsSome(call.given.bbox2.boxed)
    /\ call.given.bbox1.dims # call.given.bbox2.dims
    /\ call.out.dims # call.given.bbox1.dims
    /\ call.out.dims # call.given.bbox2.dims

---------------------------------------------------------------------------
(* C19 *)

Greater(a, b) == IF a >= b THEN a ELSE b
Lesser(a, b) == IF a <= b THEN a ELSE b

\* C19: with start = max(a.start, b.start) and end = min(a.end, b.end),
\* intersection(a, b) is None whenever start >= end (so intervals that only
\* touch at an endpoint do not intersect, nor does a pair whose result would
\* be reversed) and Some([start, end]) otherwise.
C19_Intersection ==
    call.op = "intersection"
    => LET start == Greater(call.given.in1.start, call.given.in2.start)
           end   == Lesser(call.given.in1.end, call.given.in2.end)
       IN  IF start >= end THEN call.out = None
           ELSE call.out = Some(Interval(start, end))

\* intersection has been called on two valid intervals that touch at one
\* endpoint
C19_Witness ==
    /\ call.op = "intersection"
    /\ call.given.in1.start < call.given.in1.end
    /\ call.given.in1.end = call.given.in2.start
    /\ call.given.in2.start < call.given.in2.end
    /\ call.out = None

---------------------------------------------------------------------------
(* C20 *)

\* C20: intersection is commutative: for all intervals a and b, valid or
\* reversed, intersection(a, b) is what intersection(b, a) is, both None or
\* both the same interval.
C20_IntersectionCommutes ==
    call.op = "intersection"
    => call.out = intersection(call.given.in2, call.given.in1)

\* intersection has been called on two different intervals that overlap
C20_Witness ==
    /\ call.op = "intersection"
    /\ call.given.in1.start < call.given.in2.start
    /\ call.given.in1.end < call.given.in2.end
    /\ IsSome(call.out)
    /\ Unwrap(call.out) = Interval(call.given.in2.start, call.given.in1.end)

---------------------------------------------------------------------------
(* C21 *)

\* start <= end
IsValid(in1) == in1.start <= in1.end

\* C21: cover(a, b) always returns an interval, which starts at the lesser
\* of the two starts and ends at the greater of the two ends, so it contains
\* both a and b; it is valid whenever a and b are valid; and cover(a, a) has
\* the size of a.
C21_CoverContainsBoth ==
    call.op = "cover"
    => LET a == call.given.in1
           b == call.given.in2
       IN  /\ call.out.start = Lesser(a.start, b.start)
           /\ call.out.end = Greater(a.end, b.end)
           /\ (IsValid(a) /\ IsValid(b)) => IsValid(call.out)
           /\ (a = b) => size(call.out) = size(a)

\* cover has been called on two valid intervals that lie apart, the second
\* after the first, as in test_cover
C21_Witness ==
    /\ call.op = "cover"
    /\ call.given.in1.start < call.given.in1.end
    /\ call.given.in1.end < call.given.in2.start
    /\ call.given.in2.start < call.given.in2.end
    /\ call.out = Interval(call.given.in1.start, call.given.in2.end)

---------------------------------------------------------------------------
(* C22 *)

\* a is at most b when hits are ordered by value and every hit comes before
\* no hit
AtMost(a, b) == IsNone(b) \/ (IsSome(a) /\ Unwrap(a) <= Unwrap(b))

\* C22: cmp_intersection(Some(a), Some(b)) is Less exactly when a < b, every
\* Some is Less than None and None equals None; the order is total,
\* antisymmetric and transitive; so the minimum of a non-empty candidate list
\* is None only when every candidate is None.
C22_CmpIntersection ==
    /\ call.op = "cmp_intersection"
       => \A i \in 1..Len(call.given.list), j \in 1..Len(call.given.list) :
            LET a == call.given.list[i]
                b == call.given.list[j]
            IN  /\ (IsSome(a) /\ IsSome(b))
                   => (call.out[i][j] = "Less" <=> Unwrap(a) < Unwrap(b))
                /\ (IsSome(a) /\ IsNone(b)) => call.out[i][j] = "Less"
                /\ (IsNone(a) /\ IsNone(b)) => call.out[i][j] = "Equal"
                /\ call.out[i][j] \in { "Less", "Equal", "Greater" }
                /\ call.out[i][j] = "Less" <=> call.out[j][i] = "Greater"
                /\ call.out[i][j] = "Equal" <=> a = b
                /\ \A k \in 1..Len(call.given.list) :
                      (call.out[i][j] # "Greater" /\ call.out[j][k] # "Greater")
                      => call.out[i][k] # "Greater"
    /\ call.op = "min_by"
       => IF call.given.list = << >> THEN call.out = None
          ELSE /\ IsSome(call.out)
               /\ Unwrap(call.out) \in 1..Len(call.given.list)
               /\ \A i \in 1..Len(call.given.list) :
                     AtMost(call.given.list[Unwrap(call.out)], call.given.list[i])
               /\ IsNone(call.given.list[Unwrap(call.out)])
                  => \A i \in 1..Len(call.given.list) : IsNone(call.given.list[i])

\* the comparator has been called on a list that holds None and two
\* different parameters, None first
C22_Witness ==
    /\ call.op = "cmp_intersection"
    /\ Len(call.given.list) = 3
    /\ IsNone(call.given.list[1])
    /\ IsSome(call.given.list[2]) /\ IsSome(call.given.list[3])
    /\ Unwrap(call.given.list[3]) < Unwrap(call.given.list[2])
    /\ call.out[3][2] = "Less" /\ call.out[2][1] = "Less" /\ call.out[1][3] = "Greater"

---------------------------------------------------------------------------
(* C23 *)

\* the unit vector along axis k, scaled by d
Along(k, d) == [i \in 1..3 |-> IF i = k THEN d ELSE 0]

\* the axis (1..3) that a unit normal or axis vector lies along
AxisOf(v) == CHOOSE k \in 1..3 : v[k] # 0

Plus(u, v) == [i \in 1..3 |-> u[i] + v[i]]

\* points of the surface of a primitive, the farthest along each coordinate
\* axis: of a sphere centre +- radius; of a disc its rim; of a cylinder the
\* rims at +- height along its axis; of a truncated cone with an opening of
\* 45 degrees the rim at `height` from the apex, where the radius is height
\* and the apex lies centre_radius below the centre
SurfacePoints(h) ==
    IF h.shape = "Sphere"
    THEN { Plus(h.centre, Along(k, s * h.radius)) : k \in 1..3, s \in { -1, 1 } }
    ELSE IF h.shape = "Disc"
    THEN { Plus(h.centre, Along(k, s * h.radius)) :
             k \in (1..3) \ { AxisOf(h.normal) }, s \in { -1, 1 } }
    ELSE IF h.shape = "Cylinder"
    THEN { Plus(Plus(h.centre, Along(AxisOf(h.axis), t * h.height)),
                Along(k, s * h.radius)) :
             k \in (1..3) \ { AxisOf(h.axis) }, s \in { -1, 1 }, t \in { -1, 1 } }
    ELSE { Plus(Plus(h.centre, Along(AxisOf(h.axis), h.height - h.centre_radius)),
                Along(k, s * h.height)) :
             k \in (1..3) \ { AxisOf(h.axis) }, s \in { -1, 1 } }

\* the point p lies in the box
Contains(bbox, p) ==
    \A i \in 1..3 : bbox.dims[i].start <= p[i] /\ p[i] <= bbox.dims[i].end

\* C23: for every primitive the scene can hold (Sphere, Disc, Cylinder,
\* TruncCone) make_covering returns a box that contains the whole
\* primitive and carries it as its payload; for a sphere the box is
\* [centre[i] - radius, centre[i] + radius] on each axis i.
C23_CoveringContains ==
    call.op = "make_covering"
    => LET h == call.given.hittable
       IN  /\ ~call.out.panicked
           /\ IsSome(call.out.bbox)
           /\ Unwrap(call.out.bbox).boxed = Some(h)
           /\ \A p \in SurfacePoints(h) : Contains(Unwrap(call.out.bbox), p)
           /\ h.shape = "Sphere"
              => \A i \in 1..3 :
                    Unwrap(call.out.bbox).dims[i]
                    = Interval(h.centre[i] - h.radius, h.centre[i] + h.radius)

---------------------------------------------------------------------------
(* C24 *)

\* the covers of the three spheres of test_coveringtree_intersect, in the
\* order they are pushed: centre (0,0,0) radius 5, centre (0,0,2) radius 1,
\* centre (0,2,0) radius 1
ScenarioCovers ==
    << make_covering(Hittable(1, Vec3(0, 0, 0), 10)),
       make_covering(Hittable(2, Vec3(0, 0, 4), 2)),
       make_covering(Hittable(3, Vec3(0, 4, 0), 2)) >>

\* its ray: origin (-1.5,-0.5,-0.5), direction (1,0,0)
ScenarioRay == Ray(Vec3(-3, -1, -1), Vec3(2, 0, 0))

\* C24: for the tree built from the covers of the three spheres and the ray
\* from (-1.5,-0.5,-0.5) along (1,0,0), check_intersection on the root cover
\* is true and tree_filter, started on an empty list, yields a non-empty
\* candidate list.
C24_Scenario ==
    /\ (input = ScenarioCovers /\ phase = "built")
       => check_intersection(Unwrap(tree).cover, ScenarioRay)
    /\ (/\ input = ScenarioCovers
        /\ query[1].status = "done"
        /\ query[1].ray = Some(ScenarioRay)
        /\ query[1].entry = << >>)
       => query[1].subscene # << >>

\* the scenario has run: the tree is built from the three covers and the
\* query with the ray, started on an empty list, is done
C24_Witness ==
    /\ input = ScenarioCovers
    /\ phase = "built"
    /\ query[1].status = "done"
    /\ query[1].ray = Some(ScenarioRay)
    /\ query[1].entry = << >>
    /\ Len(query[1].subscene) >= 1
    /\ query[1].subscene[1].hittable.id = 1

---------------------------------------------------------------------------
(* C25 *)

\* the node at p comes before the node at q when the tree is walked from
\* the root, a node before the nodes beneath it and the left subtree before
\* the right one
WalkedBefore(p, q) ==
    /\ p # q
    /\ \/ IsPrefix(p, q)
       \/ \E n \in 1..Len(p) :
             /\ n <= Len(q)
             /\ SubSeq(p, 1, n - 1) = SubSeq(q, 1, n - 1)
             /\ p[n] = "left" /\ q[n] = "right"

\* the pairs of the first n visits of query k, in the order of the visits:
\* one for each node that passed its cover test and whose box has a payload
RECURSIVE PairsOfVisits(_, _)
PairsOfVisits(k, n) ==
    IF n = 0 THEN << >>
    ELSE LET node == NodeAt(Unwrap(tree), query[k].visited[n])
             ray  == Unwrap(query[k].ray)
         IN  IF check_intersection(node.cover, ray) /\ IsSome(node.cover.boxed)
             THEN Append(PairsOfVisits(k, n - 1),
                         Candidate(Unwrap(node.cover.boxed),
                                   shape_intersect(Unwrap(node.cover.boxed), ray)))
             ELSE PairsOfVisits(k, n - 1)

\* C25: within one query every node's cover is tested before any node
\* beneath it (a node is tested only after its parent), no node is tested
\* twice, the left subtree is walked in full before the right one, and the
\* candidates are appended in that order, that of the leaves from left to
\* right, after what the output list held at the start, which is kept as a
\* prefix.
C25_TraversalOrder ==
    \A k \in QueryIds :
        /\ \A i \in 1..Len(query[k].visited), j \in 1..Len(query[k].visited) :
              i < j => WalkedBefore(query[k].visited[i], query[k].visited[j])
        /\ \A j \in 1..Len(query[k].visited) :
              query[k].visited[j] # << >>
              => \E i \in 1..(j - 1) :
                    query[k].visited[i]
                    = SubSeq(query[k].visited[j], 1, Len(query[k].visited[j]) - 1)
        /\ IsPrefix(query[k].entry, query[k].subscene)
        /\ Appended(query[k]) = PairsOfVisits(k, Len(query[k].visited))

\* a finished query that started on a list with an entry, tested the left
\* child of the root and later a node beneath the right child, and appended
\* two pairs
C25_Witness ==
    \E k \in QueryIds :
        /\ Done(k)
        /\ query[k].entry # << >>
        /\ Len(Appended(query[k])) >= 2
        /\ \E i \in 1..Len(query[k].visited), j \in 1..Len(query[k].visited) :
              /\ i < j
              /\ query[k].visited[i] = << "left" >>
              /\ Len(query[k].visited[j]) = 2
              /\ query[k].visited[j][1] = "right"

---------------------------------------------------------------------------
(* C26 *)

\* the ray parameter of entry i of the candidate list of a bounce
ParamAt(b, i) == param_value(Unwrap(b.subscene[i].param))

\* entry i of the candidate list of a bounce holds a hit
IsHit(b, i) == IsSome(b.subscene[i].param)

\* the bounce took the object at position i: a candidate of this bounce with
\* a hit that is at most every other hit of the bounce, and the first such
Selects(b, i) ==
    /\ i \in 1..Len(b.subscene)
    /\ IsHit(b, i)
    /\ \A j \in 1..Len(b.subscene) : IsHit(b, j) => ParamAt(b, i) <= ParamAt(b, j)
    /\ \A j \in 1..(i - 1) : IsHit(b, j) => ParamAt(b, i) < ParamAt(b, j)

\* C26: in accel_raytrace each bounce starts from a fresh, empty candidate
\* list; the object selected is a candidate of that bounce whose parameter
\* is Some and <= every other Some parameter of the bounce, the first such
\* in list order on ties; when the list is empty or every candidate is None
\* the sky branch is taken and the function returns; and at most
\* scatter_depth queries are issued.
C26_ClosestHit ==
    call.op = "accel_raytrace"
    => /\ Len(call.bounces) <= call.scatter_depth
       /\ \A n \in 1..Len(call.bounces) :
             LET b == call.bounces[n]
             IN  /\ b.entry = << >>
                 /\ \A i \in 1..Len(b.subscene) :
                       \E l \in 1..Len(Leaves(Unwrap(tree))) :
                          Leaves(Unwrap(tree))[l].boxed = Some(b.subscene[i].hittable)
                 /\ b.branch \in { "emitter", "scatter" }
                    => IsSome(b.selected) /\ Selects(b, Unwrap(b.selected))
                 /\ (\A i \in 1..Len(b.subscene) : ~IsHit(b, i))
                    <=> b.branch = "sky"
                 /\ b.branch \in { "sky", "emitter" }
                    => n = Len(call.bounces) /\ call.status = "returned"
                 /\ call.status = "running" => n < call.scatter_depth

\* accel_raytrace has returned after two bounces: the first took the first
\* of two candidates with equal parameters and scattered, the second found
\* candidates without a hit and took the sky branch
C26_Witness ==
    /\ call.op = "accel_raytrace"
    /\ call.status = "returned"
    /\ Len(call.bounces) = 2
    /\ LET b == call.bounces[1]
       IN  /\ b.branch = "scatter"
           /\ Len(b.subscene) >= 2
           /\ IsHit(b, 1) /\ IsHit(b, 2)
           /\ ParamAt(b, 1) = ParamAt(b, 2)
           /\ b.selected = Some(1)
    /\ call.bounces[2].branch = "sky"
    /\ call.bounces[2].subscene # << >>

---------------------------------------------------------------------------
(* C27 *)

\* C27: check_intersection is monotone under containment: when every axis
\* interval of box A lies within that of box B and A passes
\* check_intersection for a ray, B passes it for the same ray, also when
\* the direction has zero components; hence in a built tree a leaf box that
\* passes the test has every cover above it pass.
C27_Monotone ==
    /\ call.op = "check_intersection_nested"
       => ((Within(call.given.inner, call.given.outer) /\ call.out.inner)
           => call.out.outer)
    /\ (call.op = "make_coveringtree" /\ ~call.out.panicked)
       => \A ray \in OpRays, p \in Paths(Unwrap(call.out.tree)) :
             (/\ IsLeaf(NodeAt(Unwrap(call.out.tree), p))
              /\ check_intersection(NodeAt(Unwrap(call.out.tree), p).cover, ray))
             => \A n \in 0..Len(p) :
                   check_intersection(
                       NodeAt(Unwrap(call.out.tree), SubSeq(p, 1, n)).cover, ray)

\* the test has passed on a box and on a larger box around it, for a ray
\* with a zero direction component
C27_Witness ==
    /\ call.op = "check_intersection_nested"
    /\ call.given.inner.dims # call.given.outer.dims
    /\ Within(call.given.inner, call.given.outer)
    /\ \E i \in 1..3 : call.given.ray.dir[i] = 0
    /\ \E i \in 1..3 : call.given.ray.dir[i] # 0
    /\ call.out.inner
    /\ call.out.outer

---------------------------------------------------------------------------
(* C28 *)

\* C28: after make_coveringtree returns on a slice of N >= 1 boxes, each of
\* the N slots of the caller's slice holds the default box ([0,0] on each
\* axis, no payload): the payloads have moved into the tree, so a second
\* build from the same slice gives a tree whose leaves carry no payload.
C28_SliceLeftDefault ==
    /\ (call.op = "make_coveringtree" /\ Len(call.given.boxes) >= 1)
       => /\ ~call.out.panicked
          /\ Len(call.left.boxes) = Len(call.given.boxes)
          /\ \A i \in 1..Len(call.left.boxes) : call.left.boxes[i] = DefaultBox
    /\ call.op = "make_coveringtree_again"
       => /\ ~call.out.panicked
          /\ Len(Leaves(Unwrap(call.out.tree))) = Len(call.given.before)
          /\ \A l \in 1..Len(Leaves(Unwrap(call.out.tree))) :
                IsNone(Leaves(Unwrap(call.out.tree))[l].boxed)

\* the second build has returned, from a slice of three boxes that held two
\* payloads before the first build
C28_Witness ==
    /\ call.op = "make_coveringtree_again"
    /\ Len(call.given.before) = 3
    /\ \E i \in 1..3, j \in 1..3 :
          /\ i # j
          /\ IsSome(call.given.before[i].boxed)
          /\ IsSome(call.given.before[j].boxed)
    /\ ~call.out.panicked
    /\ IsNone(Unwrap(call.out.tree).cover.boxed)

---------------------------------------------------------------------------
(* C29 *)

\* the box has no extent along at least one axis
ZeroExtent(bbox) == \E i \in 1..3 : bbox.dims[i].start = bbox.dims[i].end

\* C29: a box with zero extent along at least one axis (start == end), such
\* as the default or empty box, is not reported hit by check_intersection
\* for any ray, and a leaf with such a box contributes no candidate.
C29_ZeroExtentNeverHit ==
    /\ (call.op = "check_intersection" /\ ZeroExtent(call.given.bbox))
       => call.out = FALSE
    /\ (call.op = "tree_filter" /\ ZeroExtent(call.given.bbox))
       => call.out = << >>

\* tree_filter has returned from a leaf whose box, the cover of a sphere of
\* radius 0, has no extent, for a ray that meets the sphere
C29_Witness ==
    /\ call.op = "tree_filter"
    /\ ZeroExtent(call.given.bbox)
    /\ IsSome(call.given.bbox.boxed)
    /\ IsSome(shape_intersect(Unwrap(call.given.bbox.boxed), call.given.ray))
    /\ call.out = << >>

---------------------------------------------------------------------------
(* C30 *)

\* the box has a valid interval on every axis and the origin lies in it
HoldsOrigin(bbox) ==
    \A i \in 1..3 : bbox.dims[i].start <= 0 /\ 0 <= bbox.dims[i].end

\* C30: for any slice of boxes (empty, valid or reversed) make_all_covering
\* returns a box without a payload whose interval on every axis is valid and
\* contains 0 (start <= 0 <= end); so the cover of every internal node of a
\* built tree contains the origin; and for an empty slice the result is the
\* identity box, [0,0] on each axis.
C30_CoverHoldsOrigin ==
    /\ call.op = "make_all_covering"
       => /\ IsNone(call.out.boxed)
          /\ HoldsOrigin(call.out)
          /\ call.given.boxes = << >>
             => call.out.dims = [i \in 1..3 |-> Interval(0, 0)]
    /\ (call.op = "make_coveringtree" /\ ~call.out.panicked)
       => \A p \in Paths(Unwrap(call.out.tree)) :
             IsInternal(NodeAt(Unwrap(call.out.tree), p))
             => /\ IsNone(NodeAt(Unwrap(call.out.tree), p).cover.boxed)
                /\ HoldsOrigin(NodeAt(Unwrap(call.out.tree), p).cover)

\* make_all_covering has returned on a slice of boxes none of which holds
\* the origin, one of them with reversed intervals
C30_Witness ==
    /\ call.op = "make_all_covering"
    /\ Len(call.given.boxes) >= 2
    /\ \A n \in 1..Len(call.given.boxes) : ~HoldsOrigin(call.given.boxes[n])
    /\ \E n \in 1..Len(call.given.boxes), i \in 1..3 :
          call.given.boxes[n].dims[i].start > call.given.boxes[n].dims[i].end
    /\ \E n \in 1..Len(call.given.boxes) :
          \A i \in 1..3 :
             call.given.boxes[n].dims[i].start < call.given.boxes[n].dims[i].end
    /\ HoldsOrigin(call.out)

===========================================================================
